---- MODULE Spec2Model ----
(***************************************************************************)
(* State-machine model of the ProfileManager component: the profile key    *)
(* registry view (fetch, delete key) and the two-signature authority       *)
(* transfer (src/src/components/ProfileManager.tsx; the second skin in     *)
(* src/unnamed/part_001 carries the same handlers line for line).          *)
(*                                                                         *)
(* One action is one run of the event loop: a click handler up to its      *)
(* first await, the continuation of a handler after an await resolves, a   *)
(* timer callback, a wallet-adapter event.  React's render and the effects *)
(* whose dependencies changed are part of the action that changed them     *)
(* (operator Commit).                                                      *)
(***************************************************************************)
EXTENDS Integers, Sequences, FiniteSets, TLC

\* ------------------------------------------------------------------ bounds
\* Wall clock (ms) is not advanced beyond this.
MaxNow == 43000
\* Effect-triggered profile fetches that may be pending at once.
MaxFetches == 1
\* Accepted submissions of one session that are counted.
MaxSent == 2
\* Transactions the network applies; once it has applied that many no
\* further session or deletion is started.
MaxLanded == 1

\* ------------------------------------------------------- program constants
BLOCKHASH_VALIDITY_SECONDS == 42

\* ---------------------------------------------------------------- values
NoWallet == "null"
NoError  == "null"
\* Identities a wallet can connect as.
Wallets  == {"A", "D", "C"}
\* Strings the user can leave in the destination input.
Inputs   == {"", "A", "D", " D ", "zz"}
\* The values of Date.now() (ms) after the initial one at which events are
\* observed: 41.999 s, 42 s and 42.001 s after it.
Instants == {42999, 43000, 43001}

Steps == {"idle", "enter_destination", "sign_current", "connect_destination",
          "sign_destination", "complete", "expired"}

\* The program id the field starts with, under which the profile program is
\* deployed, and the ids of the quick-select buttons.
PLAYER_PROFILE_PROGRAM_ID == "pprof"

KNOWN_PROGRAM_IDS == {"pprof", "Pprof"}

\* String.prototype.trim on the modelled inputs.
Trim(s) == IF s = " D " THEN "D" ELSE s

\* new PublicKey(s) succeeds exactly on a well-formed base58 address.
IsPublicKey(s) == s \in Wallets \cup {"K"}

initialTransferState ==
    [step |-> "idle", destinationPubkey |-> "", originalAuthPubkey |-> "",
     partiallySignedTx |-> <<>>, signedAt |-> 0, error |-> NoError]

\* The profile account as first deployed: A and C hold auth, K does not.
InitialKeys ==
    << [key |-> "A", auth |-> TRUE], [key |-> "C", auth |-> TRUE],
       [key |-> "K", auth |-> FALSE] >>

\* ----------------------------------------------------------- transactions
NoTx == [kind |-> "none", program |-> "", feePayer |-> "", signer |-> "",
         newKey |-> "", idx |-> 0, sigs |-> {}]

\* Account keys that must sign, fee payer first (the order of the wire
\* format's signature slots).
SignerOrder(tx) ==
    LET rest == IF tx.kind = "adjustAuth" /\ tx.newKey # tx.signer
                THEN <<tx.signer, tx.newKey>> ELSE <<tx.signer>>
    IN  <<tx.feePayer>> \o SelectSeq(rest, LAMBDA k : k # tx.feePayer)

RequiredSigners(tx) == {SignerOrder(tx)[i] : i \in 1..Len(SignerOrder(tx))}

\* A key that is no required signer of tx cannot sign it: signing throws.
CanSign(tx, w) == w \in RequiredSigners(tx)

\* wallet.signTransaction(tx): the connected key's signature is added.
SignTransaction(tx, w) == [tx EXCEPT !.sigs = @ \cup {w}]

\* tx.serialize({requireAllSignatures: false}): one slot per required
\* signer, "0" where the signature is missing, then the message.
Serialize(tx) ==
    [signatures |-> [i \in 1..Len(SignerOrder(tx)) |->
                        IF SignerOrder(tx)[i] \in tx.sigs
                        THEN SignerOrder(tx)[i] ELSE "0"],
     message |-> [kind |-> tx.kind, program |-> tx.program,
                  feePayer |-> tx.feePayer,
                  signer |-> tx.signer, newKey |-> tx.newKey, idx |-> tx.idx]]

\* tx.serialize() with the defaults throws unless every slot is signed.
CanSerializeAll(tx) == RequiredSigners(tx) \subseteq tx.sigs

\* Transaction.from(bytes)
TransactionFrom(wire) ==
    [kind |-> wire.message.kind, program |-> wire.message.program,
     feePayer |-> wire.message.feePayer,
     signer |-> wire.message.signer, newKey |-> wire.message.newKey,
     idx |-> wire.message.idx,
     sigs |-> {wire.signatures[i] : i \in DOMAIN wire.signatures} \ {"0"}]

WireSigs(wire) == {wire.signatures[i] : i \in DOMAIN wire.signatures} \ {"0"}


\* ------------------------------------------------------------------ state
VARIABLES
    wallet,          \* wallet.publicKey as base58, NoWallet when disconnected
    transferState,   \* the TransferState record
    processing,      \* a user-triggered wallet/network operation is pending
    loading,         \* a profile fetch is pending
    modalOpen,
    selectedProfile, \* <<>> when null, <<profile>> otherwise
    profiles,        \* the displayed profiles
    now,             \* Date.now()
    chain,           \* the profile's key list on the network
    op,              \* the pending async handler and what its closure holds
    fetches,         \* identities of the pending effect-triggered fetches
    landed,          \* transactions the network applied
    call,            \* what the last event called: a wallet or RPC method,
                     \* updateTimer or alert, or that it ended in an
                     \* unhandled rejection; NoCall if nothing
    sent,            \* submissions of this session the RPC node accepted
    sessionLanded,   \* this session's transfer changed the on-chain profile
    programId,       \* the program-id field
    debugInfo        \* the message under the program-id field

vars == <<wallet, transferState, processing, loading, modalOpen,
          selectedProfile, profiles, now, chain, op, fetches, landed,
          call, sent, sessionLanded, programId, debugInfo>>

NoCall == [api |-> "none", w |-> NoWallet, wire |-> Serialize(NoTx),
           auth |-> FALSE]

NoOp == [kind |-> "none", pc |-> "none", w |-> NoWallet, tx |-> NoTx,
         signedAt |-> 0, idx |-> 0]

\* --------------------------------------------------- derived render values
\* Faulty variant: the completion screen does not suspend the fetch.
isTransferInProgressUntilComplete(ts) ==
    ts.step \in {"connect_destination", "sign_destination", "expired"}

isTransferInProgressOf(ts) ==
    ts.step \in {"connect_destination", "sign_destination", "expired", "complete"}

isTransferInProgress == isTransferInProgressOf(transferState)

connected == wallet # NoWallet

showConnectWalletMessage == ~connected /\ ~isTransferInProgress

showLoading == loading /\ ~isTransferInProgress

\* The modal is on screen: the component got past its two early returns and
\* showTransferModal holds.
ModalVisible ==
    /\ ~showConnectWalletMessage
    /\ ~showLoading
    /\ modalOpen
    /\ (transferState.step # "idle" \/ connected)

\* The profile table is on screen and not covered by the modal overlay.
ListVisible ==
    /\ ~showConnectWalletMessage
    /\ ~showLoading
    /\ ~isTransferInProgress
    /\ ~ModalVisible

\* Row actions of the key table.
TransferButtonShown(pk, w) == pk.auth /\ pk.key = w

\* Faulty variant of the Delete button's condition: shown on every key but
\* the user's own auth key.
DeleteButtonShownAnyKey(pk, w) == ~TransferButtonShown(pk, w)

\* The Delete button: the other branch of the row's conditional, under
\* !isAuth.
DeleteButtonShown(pk, w) == ~TransferButtonShown(pk, w) /\ ~pk.auth

\* readAllFromRPC with the memcmp filter on the connected identity.
ReadProfiles(keys, w) ==
    IF Len(keys) >= 1 /\ keys[1].key = w
    THEN << [key |-> "P", keys |-> keys] >> ELSE << >>

\* The RPC reads of fetchProfiles, in the order they are awaited; NoThrow
\* when all of them return.
RpcReads == <<"getAccountInfo", "getProgramAccounts", "readAllFromRPC">>

NoThrow == "none"

Throws == {NoThrow} \cup {RpcReads[i] : i \in DOMAIN RpcReads}

\* getAccountInfo(programId) finds the program on this network.
ProgramExists(id) == id = PLAYER_PROFILE_PROGRAM_ID

\* getProgramAccounts(programId).length: the profile account.
TotalAccounts(id) == IF ProgramExists(id) THEN 1 ELSE 0

\* The decimal form of a count in a template string.
Decimal(n) == CASE n = 0 -> "0" [] n = 1 -> "1" [] OTHER -> "2"

MissingMessage(id) ==
    "Program " \o id \o
    " does not exist on this network. Try a different program ID."

\* e.message of the error an RPC read rejects with.
RpcErrorMessage == "failed to fetch"

ErrorMessage(message) == "Error: " \o message

FoundMessage(n, total) ==
    "Found " \o Decimal(n) \o " profiles. Program has " \o Decimal(total) \o
    " total accounts."

FoundNoneHint ==
    " The offset calculation might be wrong or your wallet is not an auth" \o
    " key on any profiles."

\* A faulty variant: a missing program reported with the words of an empty
\* result and the list left as it was.
fetchProfilesResultMissingAsEmpty(thrown, keys, w, id, prev) ==
    IF thrown = "getAccountInfo" \/ (ProgramExists(id) /\ thrown # NoThrow)
    THEN [profiles |-> prev, debugInfo |-> ErrorMessage(RpcErrorMessage),
          loading |-> FALSE]
    ELSE LET myProfiles == IF ProgramExists(id) THEN ReadProfiles(keys, w)
                           ELSE prev
             total == TotalAccounts(id)
         IN  [loading |-> FALSE, profiles |-> myProfiles,
              debugInfo |-> FoundMessage(Len(myProfiles), total)]

\* What fetchProfiles has written to profiles, debugInfo and loading when it
\* ends: thrown names the read that threw, prev is the list before the fetch.
fetchProfilesResult(thrown, keys, w, id, prev) ==
    IF thrown = "getAccountInfo"
    THEN [profiles |-> prev, debugInfo |-> ErrorMessage(RpcErrorMessage),
          loading |-> FALSE]
    ELSE IF ~ProgramExists(id)
    THEN [profiles |-> << >>, debugInfo |-> MissingMessage(id),
          loading |-> FALSE]
    ELSE IF thrown # NoThrow
    THEN [profiles |-> prev, debugInfo |-> ErrorMessage(RpcErrorMessage),
          loading |-> FALSE]
    ELSE LET myProfiles == ReadProfiles(keys, w)
             total == TotalAccounts(id)
         IN  [loading |-> FALSE, profiles |-> myProfiles,
              debugInfo |->
                  IF Len(myProfiles) = 0 /\ total > 0
                  THEN FoundMessage(Len(myProfiles), total) \o FoundNoneHint
                  ELSE FoundMessage(Len(myProfiles), total)]

\* The second skin's messages.
FoundMessageSkin2(n) ==
    "Found " \o Decimal(n) \o " profiles owned by your wallet."

NoProfilesMessageSkin2 ==
    "No profiles found. Your wallet is not an auth key on any profiles for" \o
    " this program."

\* fetchProfiles of the second skin: it does not call getProgramAccounts,
\* and the name lookups that follow setProfiles catch their own errors.
fetchProfilesSkin2Result(thrown, keys, w, id, prev) ==
    IF thrown = "getAccountInfo"
    THEN [profiles |-> prev, debugInfo |-> ErrorMessage(RpcErrorMessage),
          loading |-> FALSE]
    ELSE IF ~ProgramExists(id)
    THEN [profiles |-> << >>, debugInfo |-> MissingMessage(id),
          loading |-> FALSE]
    ELSE IF thrown = "readAllFromRPC"
    THEN [profiles |-> prev, debugInfo |-> ErrorMessage(RpcErrorMessage),
          loading |-> FALSE]
    ELSE LET myProfiles == ReadProfiles(keys, w)
         IN  [loading |-> FALSE, profiles |-> myProfiles,
              debugInfo |-> IF Len(myProfiles) = 0
                            THEN NoProfilesMessageSkin2
                            ELSE FoundMessageSkin2(Len(myProfiles))]

\* ------------------------------------------------------------ the effects
Elapsed(signedAt, t) == (t - signedAt) \div 1000

Remaining(signedAt, t) == BLOCKHASH_VALIDITY_SECONDS - Elapsed(signedAt, t)

\* Faulty variants of updateTimer's test: a second early, a second late.
TimerExpiredEarly(signedAt, t) == Remaining(signedAt, t) <= 1

TimerExpiredLate(signedAt, t) == Remaining(signedAt, t) < 0

\* updateTimer's test for forcing the step to expired.
TimerExpired(signedAt, t) == Remaining(signedAt, t) <= 0

\* The countdown effect arms the interval only in these states.
TimerActive(ts) ==
    ts.signedAt # 0 /\ ts.step \notin {"complete", "expired"}

\* Faulty variant: the expiry also drops the stored partial transaction.
ExpireUpdateDropsPartial(prev) ==
    [prev EXCEPT !.step = "expired", !.error = "expired",
                 !.partiallySignedTx = << >>]

\* The state update of updateTimer at the deadline.
ExpireUpdate(prev) ==
    [prev EXCEPT !.step = "expired", !.error = "expired"]

\* Faulty variant of the wallet-change effect: a disconnect resets the
\* session.
WalletEffectReset(cl, w, prev) ==
    IF w = NoWallet THEN initialTransferState
    ELSE IF cl.step = "connect_destination" /\ w = cl.destinationPubkey
    THEN [prev EXCEPT !.step = "sign_destination", !.error = NoError]
    ELSE prev

\* The message of the wrong-wallet error: it names the expected address.
WrongWalletError(dest) == "wrong_wallet:" \o dest

\* Faulty variant: the destination's connection does not advance the step.
WalletEffectNoAdvance(cl, w, prev) ==
    IF /\ cl.step = "connect_destination"
       /\ w \notin {NoWallet, cl.destinationPubkey, cl.originalAuthPubkey}
    THEN [prev EXCEPT !.error = WrongWalletError(cl.destinationPubkey)]
    ELSE prev

\* Faulty variant: the original wallet is reported as a wrong wallet too.
WalletEffectStrict(cl, w, prev) ==
    IF cl.step = "connect_destination" /\ w # NoWallet
    THEN IF w = cl.destinationPubkey
         THEN [prev EXCEPT !.step = "sign_destination", !.error = NoError]
         ELSE [prev EXCEPT !.error = WrongWalletError(cl.destinationPubkey)]
    ELSE prev

\* The wallet-change effect: decided on the values of the render (cl, w),
\* applied to the latest state (prev).
WalletEffect(cl, w, prev) ==
    IF cl.step = "connect_destination" /\ w # NoWallet
    THEN IF w = cl.destinationPubkey
         THEN [prev EXCEPT !.step = "sign_destination", !.error = NoError]
         ELSE IF w # cl.originalAuthPubkey
              THEN [prev EXCEPT !.error = WrongWalletError(cl.destinationPubkey)]
              ELSE prev
    ELSE prev

TimerDeps(ts) == <<ts.signedAt, ts.step>>

WalletDeps(ts, w) ==
    <<w, ts.step, ts.destinationPubkey, ts.originalAuthPubkey>>

\* One commit: the effects whose dependencies differ from the previous
\* render run on the new render's values, the countdown effect first.
EffectRound(old, wOld, cur, wCur, t) ==
    LET afterTimer ==
            IF /\ TimerDeps(old) # TimerDeps(cur)
               /\ TimerActive(cur)
               /\ TimerExpired(cur.signedAt, t)
            THEN ExpireUpdate(cur) ELSE cur
    IN  IF WalletDeps(old, wOld) # WalletDeps(cur, wCur)
        THEN WalletEffect(cur, wCur, afterTimer) ELSE afterTimer

\* Renders and effects repeat until no effect changes the state: r1, r2 and
\* r3 are the states after the first, second and third round.
Commit(tsOld, wOld, tsNew, wNew, t) ==
    CHOOSE r3 \in UNION {
        {EffectRound(r1, wNew, r2, wNew, t) :
            r2 \in {EffectRound(tsNew, wNew, r1, wNew, t)}} :
        r1 \in {EffectRound(tsOld, wOld, tsNew, wNew, t)}} : TRUE

\* A faulty variant: fetchProfiles without isTransferInProgress among its
\* dependencies, so that only a wallet change re-creates it.
FetchTriggeredOnWalletOnly(tsOld, wOld, tsFinal, wNew) ==
    /\ wOld # wNew
    /\ ~isTransferInProgressOf(tsFinal)
    /\ wNew # NoWallet

\* The fetch effect runs when fetchProfiles was re-created and gets past
\* fetchProfiles' two early returns.
FetchTriggered(tsOld, wOld, tsFinal, wNew) ==
    /\ (wOld # wNew
        \/ isTransferInProgressOf(tsOld) # isTransferInProgressOf(tsFinal))
    /\ ~isTransferInProgressOf(tsFinal)
    /\ wNew # NoWallet

\* A state update followed by the render and the effects it causes.
Render(tsNew, wNew) ==
    \E tsF \in {Commit(transferState, wallet, tsNew, wNew, now)} :
    LET trig == FetchTriggered(transferState, wallet, tsF, wNew)
    IN  /\ trig => Len(fetches) < MaxFetches
        /\ transferState' = tsF
        /\ wallet' = wNew
        /\ fetches' = IF trig
                      THEN Append(fetches, [w |-> wNew, programId |-> programId])
                      ELSE fetches
        /\ loading' = (trig \/ loading)
        /\ debugInfo' = IF trig THEN "" ELSE debugInfo

Init ==
    /\ wallet = NoWallet
    /\ transferState = initialTransferState
    /\ processing = FALSE
    /\ loading = FALSE
    /\ debugInfo = ""
    /\ modalOpen = FALSE
    /\ selectedProfile = << >>
    /\ profiles = << >>
    /\ now = 1000
    /\ chain = InitialKeys
    /\ op = NoOp
    /\ fetches = << >>
    /\ programId = PLAYER_PROFILE_PROGRAM_ID
    /\ landed = {}
    /\ call = NoCall
    /\ sent = 0
    /\ sessionLanded = FALSE


\* ----------------------------------------------- wallet, clock and timer
\* The wallet adapter reports a connect, a disconnect or an account switch
\* (while fewer than MaxFetches fetches are pending).
WalletChanged(w) ==
    /\ w # wallet
    /\ Len(fetches) < MaxFetches
    /\ Render(transferState, w)
    /\ UNCHANGED <<processing, modalOpen, selectedProfile, profiles, now, chain,
                   op, landed, sent,
                   sessionLanded>>
    /\ call' = NoCall
    /\ UNCHANGED programId

\* "Switch Wallet" on the connect_destination screen: wallet.disconnect().
handleDisconnectAndReconnect ==
    /\ ModalVisible
    /\ transferState.step = "connect_destination"
    /\ connected
    /\ wallet # transferState.destinationPubkey
    /\ \E ok \in BOOLEAN :
         IF ok
         THEN /\ Render(transferState, NoWallet)
              /\ call' = NoCall
         ELSE \* wallet.disconnect() rejects: the handler has no try block,
              \* the rejection leaves it and no state is written.
              /\ UNCHANGED <<wallet, transferState, loading, debugInfo, fetches>>
              /\ call' = [NoCall EXCEPT !.api = "unhandledRejection"]
    /\ UNCHANGED <<processing, modalOpen, selectedProfile, profiles, now, chain,
                   op, landed, sent,
                   sessionLanded>>
    /\ UNCHANGED programId

\* The signedAt the countdown or a pending handler's closure holds.
HeldSignedAt ==
    IF transferState.signedAt # 0 THEN transferState.signedAt ELSE op.signedAt

\* Date.now() is read only against a signedAt: the clock is advanced only
\* while one is held, and only for an attempt whose whole validity window
\* lies below MaxNow.
AdvanceTime(t) ==
    /\ now < t
    /\ t <= MaxNow
    /\ HeldSignedAt # 0
    /\ HeldSignedAt + BLOCKHASH_VALIDITY_SECONDS * 1000 <= MaxNow
    /\ now' = t
    /\ UNCHANGED <<wallet, transferState, processing, loading, debugInfo,
                   modalOpen, selectedProfile, profiles, chain, op, fetches,
                   landed, sent,
                   sessionLanded>>
    /\ call' = NoCall
    /\ UNCHANGED programId

\* The setInterval callback updateTimer.
TimerTick ==
    /\ TimerActive(transferState)
    /\ IF TimerExpired(transferState.signedAt, now)
       THEN Render(ExpireUpdate(transferState), wallet)
       ELSE UNCHANGED <<wallet, transferState, fetches, loading, debugInfo>>
    /\ UNCHANGED <<processing, modalOpen, selectedProfile, profiles, now, chain,
                   op, landed, sent,
                   sessionLanded>>
    /\ call' = [NoCall EXCEPT !.api = "updateTimer"]
    /\ UNCHANGED programId

\* ------------------------------------------------- the on-chain program
RemoveAt(seq, i) ==
    [j \in 1..(Len(seq) - 1) |-> IF j < i THEN seq[j] ELSE seq[j + 1]]

\* The program accepts an instruction signed by an auth key of the profile
\* that addresses an existing slot; adjustAuth needs that slot to be the
\* signer's own.
ChainAccepts(keys, wire) ==
    LET m == wire.message
    IN  /\ m.program = PLAYER_PROFILE_PROGRAM_ID
        /\ m.idx \in 1..Len(keys)
        /\ \E k \in 1..Len(keys) : keys[k].key = m.signer /\ keys[k].auth
        /\ m.kind = "adjustAuth" => keys[m.idx].key = m.signer

ChainApply(keys, wire) ==
    LET m == wire.message
    IN  IF m.kind = "adjustAuth"
        THEN [keys EXCEPT ![m.idx] = [key |-> m.newKey, auth |-> TRUE]]
        ELSE RemoveAt(keys, m.idx)

\* The node's simulation of a transaction before it forwards it.
Preflight(keys, done, wire) == ChainAccepts(keys, wire) /\ wire \notin done

\* ------------------------------------------------- the transfer session
openTransferModal(i, k) ==
    /\ ListVisible
    /\ ~processing
    /\ Cardinality(landed) < MaxLanded
    /\ i \in 1..Len(profiles)
    /\ k \in 1..Len(profiles[i].keys)
    /\ TransferButtonShown(profiles[i].keys[k], wallet)
    /\ selectedProfile' = << profiles[i] >>
    /\ modalOpen' = TRUE
    /\ Render([initialTransferState EXCEPT
                  !.step = "enter_destination",
                  !.originalAuthPubkey = wallet], wallet)
    /\ sent' = 0
    /\ sessionLanded' = FALSE
    /\ UNCHANGED <<processing, profiles, now, chain, op, landed>>
    /\ call' = NoCall
    /\ UNCHANGED programId

\* Faulty variant: the modal closes but the typed destination survives.
closeTransferModalKeepsDestination ==
    /\ ModalVisible
    /\ \/ transferState.step \in {"enter_destination", "connect_destination",
                                  "complete", "expired"}
       \/ transferState.step = "sign_destination" /\ ~processing
    /\ modalOpen' = FALSE
    /\ selectedProfile' = << >>
    /\ Render([initialTransferState EXCEPT
                  !.destinationPubkey = transferState.destinationPubkey],
              wallet)
    /\ sent' = 0
    /\ sessionLanded' = FALSE
    /\ UNCHANGED <<processing, profiles, now, chain, op, landed>>
    /\ call' = NoCall
    /\ UNCHANGED programId

\* Cancel / Done.  In sign_destination the button is disabled while
\* processing; sign_current has no such button.
closeTransferModal ==
    /\ ModalVisible
    /\ \/ transferState.step \in {"enter_destination", "connect_destination",
                                  "complete", "expired"}
       \/ transferState.step = "sign_destination" /\ ~processing
    /\ modalOpen' = FALSE
    /\ selectedProfile' = << >>
    /\ Render(initialTransferState, wallet)
    /\ sent' = 0
    /\ sessionLanded' = FALSE
    /\ UNCHANGED <<processing, profiles, now, chain, op, landed>>
    /\ call' = NoCall
    /\ UNCHANGED programId

\* onChange of the destination input.
destinationChanged(s) ==
    /\ ModalVisible
    /\ transferState.step = "enter_destination"
    /\ s # transferState.destinationPubkey
    /\ Render([transferState EXCEPT !.destinationPubkey = s, !.error = NoError],
              wallet)
    /\ UNCHANGED <<processing, modalOpen, selectedProfile, profiles, now, chain,
                   op, landed, sent,
                   sessionLanded>>
    /\ call' = NoCall
    /\ UNCHANGED programId

\* Faulty variant: an accepted destination keeps the earlier error.
DestinationSubmitKeepsError(ts, w) ==
    LET dest == Trim(ts.destinationPubkey)
    IN  IF ~IsPublicKey(dest)
        THEN [ts EXCEPT !.error = "invalid_address"]
        ELSE IF dest = w
        THEN [ts EXCEPT !.error = "same_as_current"]
        ELSE [ts EXCEPT !.step = "sign_current"]

\* What handleDestinationSubmit does to the session.
DestinationSubmitResult(ts, w) ==
    LET dest == Trim(ts.destinationPubkey)
    IN  IF ~IsPublicKey(dest)
        THEN [ts EXCEPT !.error = "invalid_address"]
        ELSE IF dest = w
        THEN [ts EXCEPT !.error = "same_as_current"]
        ELSE [ts EXCEPT !.step = "sign_current", !.error = NoError]

handleDestinationSubmit ==
    /\ ModalVisible
    /\ transferState.step = "enter_destination"
    /\ Trim(transferState.destinationPubkey) # ""
    /\ Render(DestinationSubmitResult(transferState, wallet), wallet)
    /\ UNCHANGED <<processing, modalOpen, selectedProfile, profiles, now, chain,
                   op, landed, sent,
                   sessionLanded>>
    /\ call' = NoCall
    /\ UNCHANGED programId

\* "Back" on the sign_current screen.
backToEnterDestination ==
    /\ ModalVisible
    /\ transferState.step = "sign_current"
    /\ ~processing
    /\ Render([transferState EXCEPT !.step = "enter_destination",
                                    !.error = NoError], wallet)
    /\ UNCHANGED <<processing, modalOpen, selectedProfile, profiles, now, chain,
                   op, landed, sent,
                   sessionLanded>>
    /\ call' = NoCall
    /\ UNCHANGED programId

\* Faulty variant: the restart also forgets the destination.
RestartUpdateClearsDestination(prev) ==
    [prev EXCEPT !.step = "enter_destination", !.destinationPubkey = "",
                 !.partiallySignedTx = << >>, !.signedAt = 0,
                 !.error = NoError]

RestartUpdate(prev) ==
    [prev EXCEPT !.step = "sign_current", !.partiallySignedTx = << >>,
                 !.signedAt = 0, !.error = NoError]

handleRestartTransfer ==
    /\ ModalVisible
    /\ transferState.step = "expired"
    /\ Render(RestartUpdate(transferState), wallet)
    /\ UNCHANGED <<processing, modalOpen, selectedProfile, profiles, now, chain,
                   op, landed, sent,
                   sessionLanded>>
    /\ call' = NoCall
    /\ UNCHANGED programId

\* "Continue to Sign" on the connect_destination screen.  The button is
\* rendered only with the destination wallet connected, and then the wallet
\* effect has already left connect_destination: it is never enabled and is
\* no disjunct of Next.
continueToSign ==
    /\ ModalVisible
    /\ transferState.step = "connect_destination"
    /\ wallet = transferState.destinationPubkey
    /\ Render([transferState EXCEPT !.step = "sign_destination"], wallet)
    /\ UNCHANGED <<processing, modalOpen, selectedProfile, profiles, now, chain,
                   op, landed, sent,
                   sessionLanded, programId>>
    /\ call' = NoCall

\* ------------------------------------------ sign with the current wallet
\* selectedProfile.profileKeys.findIndex(key is the wallet and has auth),
\* 1-based here, 0 when there is none.
FindAuthIndex(keys, w) ==
    LET hits == {k \in 1..Len(keys) : keys[k].key = w /\ keys[k].auth}
    IN  IF hits = {} THEN 0 ELSE CHOOSE k \in hits : \A j \in hits : k <= j

\* Faulty variant: delete-then-add, the first transaction only removes the
\* signer's slot.
BuildTransferTxRemoveFirst(keys, w, dest) ==
    [kind |-> "removeKeys", program |-> programId, feePayer |-> dest,
     signer |-> w, newKey |-> dest, idx |-> FindAuthIndex(keys, w),
     sigs |-> {}]

\* The adjustAuth transaction: the signer's own slot [idx, idx+1) is
\* replaced by the destination key, which is marked a required signer and
\* made the fee payer.
BuildTransferTx(keys, w, dest) ==
    [kind |-> "adjustAuth", program |-> programId, feePayer |-> dest,
     signer |-> w, newKey |-> dest, idx |-> FindAuthIndex(keys, w),
     sigs |-> {}]

\* Faulty variant: a failure also drops the stored partial transaction.
FailUpdateDropsPartial(prev, msg) ==
    [prev EXCEPT !.error = msg, !.partiallySignedTx = << >>]

\* The state update of the catch blocks.
FailUpdate(prev, msg) == [prev EXCEPT !.error = msg]

\* Faulty variant: the catch block without the finally block.
CatchWithoutRelease(msg) ==
    /\ processing' = TRUE
    /\ op' = NoOp
    /\ Render(FailUpdate(transferState, msg), wallet)

\* The catch and finally blocks of the three handlers.
CatchAndRelease(msg) ==
    /\ processing' = FALSE
    /\ op' = NoOp
    /\ Render(FailUpdate(transferState, msg), wallet)

\* Faulty variant: the operation buttons stay enabled during an operation.
ButtonNeverDisabled == FALSE

\* disabled={processing} on the buttons that start a wallet or network
\* operation: Sign with Current Wallet, Sign & Submit, Delete.
ButtonDisabled == processing

\* The click, up to the first await.
handleSignWithCurrentWallet ==
    /\ ModalVisible
    /\ transferState.step = "sign_current"
    /\ ~ButtonDisabled
    /\ IF wallet = NoWallet \/ selectedProfile = << >>
       THEN UNCHANGED <<wallet, transferState, fetches, loading, debugInfo,
                        processing, op>>
       ELSE IF \/ ~IsPublicKey(transferState.destinationPubkey)
               \/ FindAuthIndex(selectedProfile[1].keys, wallet) = 0
       THEN /\ Render(FailUpdate(transferState, "failed_sign"), wallet)
            /\ UNCHANGED <<processing, op>>
       ELSE /\ processing' = TRUE
            /\ op' = [NoOp EXCEPT
                        !.kind = "sign_current", !.pc = "build", !.w = wallet,
                        !.tx = BuildTransferTx(selectedProfile[1].keys, wallet,
                                               transferState.destinationPubkey)]
            /\ UNCHANGED <<wallet, transferState, fetches, loading, debugInfo>>
    /\ UNCHANGED <<modalOpen, selectedProfile, profiles, now, chain,
                   landed, sent, sessionLanded>>
    /\ call' = NoCall
    /\ UNCHANGED programId

\* The account that answers wallet.signTransaction when the handler's
\* render held wallet w and the adapter is on wNow by the time of the call:
\* the source does not decide which of the two signs.
SignerChoices(w, wNow) == {w} \cup ({wNow} \ {NoWallet})

\* The instruction builder and getLatestBlockhash return; the wallet is
\* asked to sign.
signCurrentBuilt(ok) ==
    /\ op.kind = "sign_current" /\ op.pc = "build"
    /\ IF ok
       THEN /\ \E signer \in SignerChoices(op.w, wallet) :
                 /\ op' = [op EXCEPT !.pc = "sign", !.w = signer]
                 /\ call' = [NoCall EXCEPT !.api = "signTransaction",
                                            !.w = signer,
                                            !.wire = Serialize(op.tx)]
            /\ UNCHANGED <<wallet, transferState, fetches, loading, debugInfo,
                           processing>>
       ELSE /\ CatchAndRelease("failed_sign")
            /\ call' = NoCall
    /\ UNCHANGED <<modalOpen, selectedProfile, profiles, now, chain,
                   landed, sent, sessionLanded>>
    /\ UNCHANGED programId

\* Faulty variant: the transaction is stored as built, unsigned.
PartialToStoreUnsigned(tx, w) == Serialize(tx)

\* The bytes stored in partiallySignedTx: the wallet's signed transaction,
\* serialized without requiring all signatures.
PartialToStore(tx, w) == Serialize(SignTransaction(tx, w))

FirstSignUpdate(prev, wire, t) ==
    [prev EXCEPT !.step = "connect_destination",
                 !.partiallySignedTx = << wire >>,
                 !.signedAt = t, !.error = NoError]

\* wallet.signTransaction resolves or rejects.
signCurrentSigned(ok) ==
    /\ op.kind = "sign_current" /\ op.pc = "sign"
    /\ IF ok /\ CanSign(op.tx, op.w)
       THEN /\ processing' = FALSE
            /\ op' = NoOp
            /\ Render(FirstSignUpdate(transferState,
                                      PartialToStore(op.tx, op.w), now), wallet)
       ELSE CatchAndRelease("failed_sign")
    /\ UNCHANGED <<modalOpen, selectedProfile, profiles, now, chain,
                   landed, sent, sessionLanded>>
    /\ call' = NoCall
    /\ UNCHANGED programId

\* -------------------------------------- sign with the destination wallet
\* Faulty variant: any connected wallet is asked for the second signature.
DestGuardAnyWallet(ts, w) ==
    IF w = NoWallet \/ ts.partiallySignedTx = << >> THEN "return"
    ELSE "proceed"

\* The two early exits of handleSignWithDestinationWallet.
DestGuard(ts, w) ==
    IF w = NoWallet \/ ts.partiallySignedTx = << >> THEN "return"
    ELSE IF w # ts.destinationPubkey THEN "wrong_wallet"
    ELSE "proceed"

handleSignWithDestinationWallet ==
    /\ ModalVisible
    /\ transferState.step = "sign_destination"
    /\ ~ButtonDisabled
    /\ sent < MaxSent
    /\ CASE DestGuard(transferState, wallet) = "return" ->
              UNCHANGED <<wallet, transferState, fetches, loading, debugInfo,
                          processing, op>>
              /\ call' = NoCall
         [] DestGuard(transferState, wallet) = "wrong_wallet" ->
              /\ Render(FailUpdate(transferState, "connect_destination_wallet"),
                        wallet)
              /\ UNCHANGED <<processing, op>>
              /\ call' = NoCall
         [] OTHER ->
              /\ processing' = TRUE
              /\ op' = [NoOp EXCEPT
                          !.kind = "sign_dest", !.pc = "sign", !.w = wallet,
                          !.tx = TransactionFrom(transferState.partiallySignedTx[1]),
                          !.signedAt = transferState.signedAt]
              /\ call' = [NoCall EXCEPT
                            !.api = "signTransaction", !.w = wallet,
                            !.wire = transferState.partiallySignedTx[1]]
              /\ UNCHANGED <<wallet, transferState, fetches, loading, debugInfo>>
    /\ UNCHANGED <<modalOpen, selectedProfile, profiles, now, chain,
                   landed, sent, sessionLanded>>
    /\ UNCHANGED programId

\* What is handed to sendRawTransaction once the wallet has signed:
\* fullySignedTx.serialize(), which throws (<< >>) on a missing signature.
DestSubmitBytes(tx, w) ==
    LET signed == SignTransaction(tx, w)
    IN  IF CanSerializeAll(signed) THEN << Serialize(signed) >> ELSE << >>

destSigned(ok) ==
    /\ op.kind = "sign_dest" /\ op.pc = "sign"
    /\ IF ok /\ CanSign(op.tx, op.w) /\ DestSubmitBytes(op.tx, op.w) # << >>
       THEN /\ op' = [op EXCEPT
                        !.pc = "send",
                        !.tx = TransactionFrom(DestSubmitBytes(op.tx, op.w)[1])]
            /\ call' = [NoCall EXCEPT !.api = "sendRawTransaction", !.w = op.w,
                                       !.wire = DestSubmitBytes(op.tx, op.w)[1]]
            /\ UNCHANGED <<wallet, transferState, fetches, loading, debugInfo,
                           processing>>
       ELSE /\ CatchAndRelease("failed")
            /\ call' = NoCall
    /\ UNCHANGED <<modalOpen, selectedProfile, profiles, now, chain,
                   landed, sent, sessionLanded>>
    /\ UNCHANGED programId

\* sendRawTransaction returns a signature or throws: the RPC node takes no
\* transaction with a missing signature, and its preflight simulation
\* refuses one the program would reject or that was processed already.
destSent(ok) ==
    /\ op.kind = "sign_dest" /\ op.pc = "send"
    /\ IF ok /\ CanSerializeAll(op.tx) /\ Preflight(chain, landed, Serialize(op.tx))
       THEN /\ op' = [op EXCEPT !.pc = "confirm"]
            /\ sent' = sent + 1
            /\ UNCHANGED <<wallet, transferState, fetches, loading, debugInfo,
                           processing>>
       ELSE /\ CatchAndRelease("failed")
            /\ UNCHANGED sent
    /\ UNCHANGED <<modalOpen, selectedProfile, profiles, now, chain, landed,
                   sessionLanded>>
    /\ call' = NoCall
    /\ UNCHANGED programId

\* Faulty variant: the confirmed transfer clears the error and stays on the
\* signing screen.
CompleteUpdateKeepsStep(prev) == [prev EXCEPT !.error = NoError]

\* The update after confirmTransaction.
CompleteUpdate(prev) == [prev EXCEPT !.step = "complete", !.error = NoError]

\* getLatestBlockhash and confirmTransaction: confirmed only if the
\* transaction landed; a timeout or an RPC error throws.
destConfirmed(ok) ==
    /\ op.kind = "sign_dest" /\ op.pc \in {"confirm", "landed", "dropped"}
    /\ IF ok
       THEN /\ op.pc = "landed"
            /\ processing' = FALSE
            /\ op' = NoOp
            /\ Render(CompleteUpdate(transferState), wallet)
       ELSE CatchAndRelease("failed")
    /\ UNCHANGED <<modalOpen, selectedProfile, profiles, now, chain,
                   landed, sent, sessionLanded>>
    /\ call' = NoCall
    /\ UNCHANGED programId


\* ------------------------------------------------------------ delete key
\* PlayerProfile.removeKeys(..., [keyIndex, keyIndex + 1]), signed and paid
\* by the connected wallet.
BuildRemoveTx(w, k) ==
    [kind |-> "removeKeys", program |-> programId, feePayer |-> w,
     signer |-> w, newKey |-> "", idx |-> k, sigs |-> {}]

\* A click on a key row's Delete button.
handleDeleteKey(i, k) ==
    /\ ListVisible
    /\ ~ButtonDisabled
    /\ Cardinality(landed) < MaxLanded
    /\ i \in 1..Len(profiles)
    /\ k \in 1..Len(profiles[i].keys)
    /\ DeleteButtonShown(profiles[i].keys[k], wallet)
    /\ IF wallet = NoWallet
       THEN /\ call' = NoCall
            /\ UNCHANGED <<processing, op>>
       ELSE /\ processing' = TRUE
            /\ op' = [NoOp EXCEPT !.kind = "delete", !.pc = "build",
                                  !.w = wallet, !.idx = k,
                                  !.tx = BuildRemoveTx(wallet, k)]
            /\ call' = [NoCall EXCEPT
                          !.api = "removeKeys", !.w = wallet,
                          !.wire = Serialize(BuildRemoveTx(wallet, k)),
                          !.auth = profiles[i].keys[k].auth]
    /\ UNCHANGED <<wallet, transferState, loading, debugInfo, modalOpen,
                   selectedProfile, profiles, now, chain, fetches,
                   landed, sent, sessionLanded>>
    /\ UNCHANGED programId

\* Faulty variant: a failed delete also empties the displayed list.
DeleteFailedClearsList ==
    /\ processing' = FALSE
    /\ op' = NoOp
    /\ profiles' = << >>
    /\ UNCHANGED <<loading, debugInfo>>
    /\ call' = [NoCall EXCEPT !.api = "alert"]

\* The catch and finally of handleDeleteKey: an alert, nothing else.
\* A faulty variant: a catch block with no finally after it, so that a
\* failed delete never calls setProcessing(false).
DeleteFailedHoldsProcessing ==
    /\ op' = NoOp
    /\ UNCHANGED <<processing, loading, debugInfo, profiles>>
    /\ call' = [NoCall EXCEPT !.api = "alert"]

DeleteFailed ==
    /\ processing' = FALSE
    /\ op' = NoOp
    /\ UNCHANGED <<loading, debugInfo, profiles>>
    /\ call' = [NoCall EXCEPT !.api = "alert"]

\* Instruction builder and getLatestBlockhash, then wallet.sendTransaction
\* (the wallet signs and sends).
deleteSent(ok) ==
    /\ op.kind = "delete" /\ op.pc = "build"
    /\ IF ok /\ Preflight(chain, landed, Serialize(SignTransaction(op.tx, op.w)))
       THEN /\ op' = [op EXCEPT !.pc = "confirm",
                                !.tx = SignTransaction(op.tx, op.w)]
            /\ UNCHANGED <<processing, loading, debugInfo, profiles>>
            /\ call' = NoCall
       ELSE DeleteFailed
    /\ UNCHANGED <<wallet, transferState, modalOpen, selectedProfile, now,
                   chain, fetches, landed, sent, sessionLanded>>
    /\ UNCHANGED programId

\* confirmTransaction; on success the handler calls the fetchProfiles of
\* its own render, which sets loading.
deleteConfirmed(ok) ==
    /\ op.kind = "delete" /\ op.pc \in {"confirm", "landed", "dropped"}
    /\ IF ok
       THEN /\ op.pc = "landed"
            /\ op' = [op EXCEPT !.pc = "fetch"]
            /\ loading' = TRUE
            /\ debugInfo' = ""
            /\ UNCHANGED <<processing, profiles>>
            /\ call' = NoCall
       ELSE DeleteFailed
    /\ UNCHANGED <<wallet, transferState, modalOpen, selectedProfile, now,
                   chain, fetches, landed, sent, sessionLanded>>
    /\ UNCHANGED programId

\* The awaited fetchProfiles ends (it catches its own errors).
deleteFetched(thrown) ==
    /\ op.kind = "delete" /\ op.pc = "fetch"
    /\ LET r == fetchProfilesResult(thrown, chain, op.w, op.tx.program,
                                    profiles)
       IN  /\ profiles' = r.profiles
           /\ debugInfo' = r.debugInfo
           /\ loading' = r.loading
    /\ processing' = FALSE
    /\ op' = NoOp
    /\ UNCHANGED <<wallet, transferState, modalOpen, selectedProfile, now,
                   chain, fetches, landed, sent, sessionLanded>>
    /\ call' = NoCall
    /\ UNCHANGED programId

\* --------------------------------------------------------- fetchProfiles
\* An effect-triggered fetchProfiles ends: setProfiles on success, the
\* error message otherwise, setLoading(false) in both.
fetchDone(i, thrown) ==
    /\ i \in 1..Len(fetches)
    /\ LET r == fetchProfilesResult(thrown, chain, fetches[i].w,
                                    fetches[i].programId, profiles)
       IN  /\ profiles' = r.profiles
           /\ debugInfo' = r.debugInfo
           /\ loading' = r.loading
    /\ fetches' = RemoveAt(fetches, i)
    /\ UNCHANGED <<wallet, transferState, processing, modalOpen,
                   selectedProfile, now, chain, op, landed, sent, sessionLanded>>
    /\ call' = NoCall
    /\ UNCHANGED programId

\* "Search Profiles": fetchProfiles of the current render, past its early
\* returns.
manualSearch ==
    /\ ListVisible
    /\ ~loading
    /\ Len(fetches) < MaxFetches
    /\ ~isTransferInProgress
    /\ wallet # NoWallet
    /\ fetches' = Append(fetches, [w |-> wallet, programId |-> programId])
    /\ loading' = TRUE
    /\ debugInfo' = ""
    /\ UNCHANGED <<wallet, transferState, processing, modalOpen,
                   selectedProfile, profiles, now, chain, op, landed, sent,
                   sessionLanded, programId>>
    /\ call' = NoCall

\* The program-id field or a quick-select button sets another id:
\* fetchProfiles is re-created and the fetch effect calls it.
programIdChanged(id) ==
    /\ ListVisible
    /\ id # programId
    /\ Len(fetches) < MaxFetches
    /\ programId' = id
    /\ IF ~isTransferInProgress /\ wallet # NoWallet
       THEN /\ fetches' = Append(fetches, [w |-> wallet, programId |-> id])
            /\ loading' = TRUE
            /\ debugInfo' = ""
       ELSE UNCHANGED <<fetches, loading, debugInfo>>
    /\ UNCHANGED <<wallet, transferState, processing, modalOpen,
                   selectedProfile, profiles, now, chain, op, landed, sent,
                   sessionLanded>>
    /\ call' = NoCall

\* ----------------------------------------------------------- the network
\* While the handler that sent a transaction awaits its confirmation the
\* network processes it: it lands, or it is dropped (rejected by the
\* program, blockhash too old, fee payer without funds).
networkProcess(lands) ==
    /\ op.pc = "confirm"
    /\ lands => Cardinality(landed) < MaxLanded
    /\ IF lands /\ Preflight(chain, landed, Serialize(op.tx))
       THEN /\ chain' = ChainApply(chain, Serialize(op.tx))
            /\ landed' = landed \cup {Serialize(op.tx)}
            /\ sessionLanded' = (sessionLanded \/ op.tx.kind = "adjustAuth")
            /\ op' = [op EXCEPT !.pc = "landed"]
       ELSE /\ op' = [op EXCEPT !.pc = "dropped"]
            /\ UNCHANGED <<chain, landed, sessionLanded>>
    /\ UNCHANGED <<wallet, transferState, processing, loading, debugInfo,
                   modalOpen, selectedProfile, profiles, now, fetches, sent>>
    /\ call' = NoCall
    /\ UNCHANGED programId

\* ------------------------------------------------------------------- Next
Next ==
    \/ \E w \in Wallets \cup {NoWallet} : WalletChanged(w)
    \/ handleDisconnectAndReconnect
    \/ \E t \in Instants : AdvanceTime(t)
    \/ TimerTick
    \/ \E i \in 1..Len(profiles) : \E k \in 1..Len(profiles[i].keys) :
          openTransferModal(i, k)
    \/ closeTransferModal
    \/ \E s \in Inputs : destinationChanged(s)
    \/ handleDestinationSubmit
    \/ backToEnterDestination
    \/ handleRestartTransfer
    \/ handleSignWithCurrentWallet
    \/ \E ok \in BOOLEAN : signCurrentBuilt(ok)
    \/ \E ok \in BOOLEAN : signCurrentSigned(ok)
    \/ handleSignWithDestinationWallet
    \/ \E ok \in BOOLEAN : destSigned(ok)
    \/ \E ok \in BOOLEAN : destSent(ok)
    \/ \E ok \in BOOLEAN : destConfirmed(ok)
    \/ \E i \in 1..Len(profiles) : \E k \in 1..Len(profiles[i].keys) :
          handleDeleteKey(i, k)
    \/ \E ok \in BOOLEAN : deleteSent(ok)
    \/ \E ok \in BOOLEAN : deleteConfirmed(ok)
    \/ \E thrown \in Throws : deleteFetched(thrown)
    \/ \E i \in 1..Len(fetches) : \E thrown \in Throws : fetchDone(i, thrown)
    \/ \E lands \in BOOLEAN : networkProcess(lands)
    \/ manualSearch
    \/ \E id \in KNOWN_PROGRAM_IDS : programIdChanged(id)

Spec == Init /\ [][Next]_vars

\* The interval of the countdown effect fires every second while armed.
LiveSpec == Spec /\ WF_vars(TimerTick)

\* The awaited call of the pending handler returns, with a value or with a
\* rejection, and the handler runs up to its next await or to its end.
AwaitReturns ==
    \/ \E ok \in BOOLEAN : signCurrentBuilt(ok)
    \/ \E ok \in BOOLEAN : signCurrentSigned(ok)
    \/ \E ok \in BOOLEAN : destSigned(ok)
    \/ \E ok \in BOOLEAN : destSent(ok)
    \/ \E ok \in BOOLEAN : destConfirmed(ok)
    \/ \E ok \in BOOLEAN : deleteSent(ok)
    \/ \E ok \in BOOLEAN : deleteConfirmed(ok)
    \/ \E thrown \in Throws : deleteFetched(thrown)
    \/ \E lands \in BOOLEAN : networkProcess(lands)

\* Every wallet and network call eventually returns.
ReturnSpec == Spec /\ WF_vars(AwaitReturns)

TypeOK ==
    /\ wallet \in Wallets \cup {NoWallet}
    /\ transferState.step \in Steps
    /\ processing \in BOOLEAN
    /\ loading \in BOOLEAN
    /\ (op.kind # "none") = processing
    /\ programId \in KNOWN_PROGRAM_IDS

\* ================================================================ claims

\* C1: a transfer transaction is handed to sendRawTransaction only when it
\* carries two signatures, the current auth key's and the destination's.
C1_SubmittedWithBothSignatures ==
    call.api = "sendRawTransaction" =>
        /\ Cardinality(WireSigs(call.wire)) >= 2
        /\ {call.wire.message.signer, call.wire.message.newKey}
               \subseteq WireSigs(call.wire)

\* C2: in every state whose step is not complete and in which no
\* sign-with-destination attempt is still running, the session's transfer
\* transaction has not changed the on-chain profile.
C2_ProfileUnchangedUnlessComplete ==
    (transferState.step # "complete" /\ op.kind # "sign_dest")
        => ~sessionLanded

\* C3: the destination wallet is asked to sign, and bytes are submitted, only
\* after the first signature was obtained and stored: the destination signs
\* exactly the stored partiallySignedTx, which carries a signature and was
\* stamped with signedAt, and what is submitted carries the signature of
\* the instruction's auth signer; sign_destination is never
\* shown with partiallySignedTx null, and with it null the handler's guard
\* returns for every wallet.
C3_DestinationAfterFirstSignature ==
    /\ (call.api = "signTransaction" /\ op.kind = "sign_dest") =>
          /\ transferState.partiallySignedTx # << >>
          /\ transferState.signedAt # 0
          /\ call.wire = transferState.partiallySignedTx[1]
          /\ WireSigs(call.wire) # {}
    /\ call.api = "sendRawTransaction" =>
          /\ op.signedAt # 0
          /\ call.wire.message.signer \in WireSigs(call.wire)
    /\ transferState.step = "sign_destination" =>
          transferState.partiallySignedTx # << >>
    /\ \A w \in Wallets \cup {NoWallet} :
          DestGuard([transferState EXCEPT !.partiallySignedTx = << >>], w)
              = "return"

C3_Witness ==
    /\ call.api = "signTransaction"
    /\ op.kind = "sign_dest"
    /\ transferState.partiallySignedTx # << >>

\* C4: within one transfer session the RPC node accepts the fully signed
\* transaction at most once.
C4_SubmittedAtMostOnce == sent <= 1

\* C5: once the step is expired, a step leaves it expired or is the user's
\* restart (to sign_current) or cancel (to idle).
C5_ExpiredUntilRestartOrCancel ==
    [][transferState.step = "expired" =>
          transferState'.step \in {"expired", "sign_current", "idle"}]_vars

\* C6: no step hands a transaction to sendRawTransaction, and no step makes
\* the step complete, once 42 s or more have passed since the signedAt of
\* the attempt.
C6_NoSubmissionAfterDeadline ==
    [][/\ call'.api = "sendRawTransaction" =>
            Elapsed(op'.signedAt, now') < BLOCKHASH_VALIDITY_SECONDS
       /\ (transferState'.step = "complete" /\ transferState.step # "complete")
            => Elapsed(op.signedAt, now') < BLOCKHASH_VALIDITY_SECONDS]_vars

C9_DisconnectKeepsSession ==
    [][(/\ wallet # NoWallet
        /\ wallet' = NoWallet
        /\ transferState.step \in {"connect_destination", "sign_destination",
                                   "expired", "complete"}) =>
          /\ transferState'.step = transferState.step
          /\ transferState'.destinationPubkey = transferState.destinationPubkey
          /\ transferState'.originalAuthPubkey = transferState.originalAuthPubkey
          /\ transferState'.partiallySignedTx = transferState.partiallySignedTx
          /\ transferState'.signedAt = transferState.signedAt]_vars

C9_Witness ==
    /\ wallet = NoWallet
    /\ transferState.step = "sign_destination"
    /\ transferState.partiallySignedTx # << >>

\* C10: removeKeys is built and sent only for a displayed key whose auth
\* flag is false.
C10_DeleteOnlyNonAuth ==
    call.api = "removeKeys" =>
        /\ ~call.auth
        /\ ~profiles[1].keys[call.wire.message.idx].auth

C10_Witness ==
    /\ call.api = "removeKeys"
    /\ op.kind = "delete"
    /\ \E k \in 1..Len(profiles[1].keys) : profiles[1].keys[k].auth

\* C11: in every state whose step is past enter_destination the stored
\* destinationPubkey differs from originalAuthPubkey.
C11_DestinationDiffersFromOriginal ==
    transferState.step \in {"sign_current", "connect_destination",
                            "sign_destination", "complete", "expired"}
        => transferState.destinationPubkey # transferState.originalAuthPubkey

\* C12: in every state whose step is past enter_destination the stored
\* destinationPubkey is itself a well-formed address.
C12_StoredDestinationWellFormed ==
    transferState.step \in {"sign_current", "connect_destination",
                            "sign_destination", "complete", "expired"}
        => IsPublicKey(transferState.destinationPubkey)

C14_WrongWalletRecorded ==
    [][transferState.step = "connect_destination" =>
        LET dest  == transferState.destinationPubkey
            orig  == transferState.originalAuthPubkey
            wrong == wallet' # wallet /\ wallet' \notin {NoWallet, dest, orig}
        IN  /\ wrong =>
                /\ transferState'.step = "connect_destination"
                /\ transferState'.error = WrongWalletError(dest)
                /\ transferState'.partiallySignedTx = transferState.partiallySignedTx
                /\ transferState'.signedAt = transferState.signedAt
                /\ transferState'.destinationPubkey = dest
            /\ (/\ transferState'.error = WrongWalletError(dest)
                /\ transferState.error # WrongWalletError(dest)) => wrong
            /\ (/\ wallet' # wallet
                /\ wallet' \in {NoWallet, orig}
                /\ wallet' # dest) =>
                /\ transferState'.step = "connect_destination"
                /\ transferState'.error = transferState.error
            /\ (/\ transferState.error = WrongWalletError(dest)
                /\ wallet' # wallet
                /\ wallet' = dest) =>
                /\ transferState'.step \in {"sign_destination", "expired"}
                /\ transferState'.error # WrongWalletError(dest)]_vars

C14_Witness ==
    /\ transferState.step = "connect_destination"
    /\ transferState.error = WrongWalletError(transferState.destinationPubkey)
    /\ wallet \notin {NoWallet, transferState.destinationPubkey,
                      transferState.originalAuthPubkey}
    /\ transferState.partiallySignedTx # <<>>
    /\ transferState.signedAt # 0

\* C15: a restart from expired moves the step to sign_current, sets
\* partiallySignedTx, signedAt and error to null and leaves
\* destinationPubkey and originalAuthPubkey unchanged; expired is left only
\* to sign_current (restart), idle (cancel) or, by a handler still pending,
\* complete, and never back to enter_destination.
C15_RestartKeepsDestination ==
    [][transferState.step = "expired" =>
        /\ transferState'.step \in {"expired", "sign_current", "idle", "complete"}
        /\ transferState'.step = "sign_current" =>
            /\ transferState'.partiallySignedTx = << >>
            /\ transferState'.signedAt = 0
            /\ transferState'.error = NoError
            /\ transferState'.destinationPubkey = transferState.destinationPubkey
            /\ transferState'.originalAuthPubkey = transferState.originalAuthPubkey
            /\ call'.api = "none"
            /\ modalOpen']_vars

\* sign_current with the destination still stored while the destination
\* handler of the expired attempt is pending: reached by a restart only.
C15_Witness ==
    /\ transferState.step = "sign_current"
    /\ transferState.destinationPubkey = "D"
    /\ transferState.originalAuthPubkey = "A"
    /\ transferState.partiallySignedTx = << >>
    /\ transferState.signedAt = 0
    /\ transferState.error = NoError
    /\ op.kind = "sign_dest"

\* C16: the step that closes the modal (Cancel or Done, from any non-idle
\* step) resets every session field to its initial value, clears the
\* selected profile, and itself issues no signature request and no network
\* submission; the chain is untouched by it.
C16_CancelResetsSession ==
    [][(modalOpen /\ ~modalOpen') =>
        /\ transferState.step # "idle"
        /\ transferState' = initialTransferState
        /\ transferState'.step = "idle"
        /\ transferState'.destinationPubkey = ""
        /\ transferState'.originalAuthPubkey = ""
        /\ transferState'.partiallySignedTx = << >>
        /\ transferState'.signedAt = 0
        /\ transferState'.error = NoError
        /\ selectedProfile' = << >>
        /\ call'.api \notin {"signTransaction", "sendRawTransaction"}
        /\ chain' = chain
        /\ op' = op]_vars

\* The session cancelled after the first signature, before anything landed.
C16_Witness ==
    /\ transferState = initialTransferState
    /\ ~modalOpen
    /\ selectedProfile = << >>
    /\ now > 1000
    /\ landed = {}
    /\ op = NoOp

\* C17: while the session state is idle (never opened, or cancelled) no step
\* hands a transfer transaction to sendRawTransaction, and the step leaves
\* idle only by the user opening a new transfer (to enter_destination).
C17_NothingAfterCancel ==
    [][transferState.step = "idle" =>
        /\ ~(/\ call'.api = "sendRawTransaction"
             /\ call'.wire.message.kind = "adjustAuth")
        /\ transferState'.step \in {"idle", "enter_destination"}]_vars

\* C18: at most one user-triggered wallet/network operation is in flight:
\* a step that starts one (delete key, sign with current wallet, sign and
\* submit with destination wallet) is taken only when none is pending, and
\* processing is true exactly while one is pending.
C18_OneOperationInFlight ==
    [][LET starts == /\ op' # op
                     /\ \/ op'.kind = "sign_current" /\ op'.pc = "build"
                        \/ op'.kind = "sign_dest" /\ op'.pc = "sign"
                        \/ op'.kind = "delete" /\ op'.pc = "build"
       IN  /\ starts => (~processing /\ op = NoOp /\ processing')
           /\ processing => (op'.kind \in {op.kind, "none"})
           /\ processing' = (op'.kind # "none")]_vars

\* A restarted session waiting in sign_current while the destination
\* handler of the expired attempt is still pending: the Sign button of the
\* screen is the one that must not start a second operation.
C18_Witness ==
    /\ processing
    /\ op.kind = "sign_dest"
    /\ transferState.step = "sign_current"
    /\ ModalVisible
    /\ wallet # NoWallet
    /\ selectedProfile # << >>

\* C19: no step starts a profile fetch (by the fetch effect after a wallet
\* or program-id change, by the Search button, or by the refresh after a
\* delete) with the step in connect_destination, sign_destination, expired
\* or complete, and the suspension flag of the render that attempts the
\* fetch equals membership of its step in that set.
C19_NoFetchDuringTransfer ==
    [][LET starts == \/ Len(fetches') > Len(fetches)
                     \/ op'.pc = "fetch" /\ op.pc # "fetch"
           suspended == {"connect_destination", "sign_destination",
                         "expired", "complete"}
       IN  /\ starts => transferState'.step \notin suspended
           /\ isTransferInProgressOf(transferState')
                = (transferState'.step \in suspended)
           /\ (/\ transferState'.step \in suspended
               /\ wallet' # wallet \/ programId' # programId)
                => fetches' = fetches /\ loading' = loading]_vars

\* A wallet other than the destination connected in connect_destination:
\* fetchProfiles was re-created and called, and nothing was fetched.
C19_Witness ==
    /\ transferState.step = "connect_destination"
    /\ wallet = "C"
    /\ fetches = << >>
    /\ ~loading
    /\ op = NoOp

\* C20: the four-step process.  Opening a transfer leads from idle to
\* enter_destination; with no older handler pending, Continue leads on to
\* sign_current; the current wallet's signature leads to
\* connect_destination and stamps signedAt; within the window the
\* destination's connection leads to sign_destination; the destination's
\* signature, once the network confirmed the transaction, leads to
\* complete with the profile changed on chain; and complete is left only
\* by the acknowledgement, to idle.
C20_FourStepProcess ==
    [][/\ (~modalOpen /\ modalOpen') =>
            /\ transferState.step = "idle"
            /\ transferState'.step = "enter_destination"
            /\ transferState'.originalAuthPubkey = wallet
       /\ (/\ transferState.step = "enter_destination"
           /\ op = NoOp
           /\ transferState'.step # "enter_destination"
           /\ modalOpen') =>
            /\ transferState'.step = "sign_current"
            /\ IsPublicKey(Trim(transferState'.destinationPubkey))
       /\ (/\ transferState.step = "sign_current"
           /\ op.kind = "sign_current"
           /\ transferState'.partiallySignedTx # << >>
           /\ wallet # transferState.destinationPubkey) =>
            /\ transferState'.step = "connect_destination"
            /\ transferState'.signedAt = now
       /\ (/\ transferState.step = "connect_destination"
           /\ wallet' # wallet
           /\ wallet' = transferState.destinationPubkey
           /\ ~TimerExpired(transferState.signedAt, now)) =>
            transferState'.step = "sign_destination"
       /\ (/\ transferState.step = "sign_destination"
           /\ op.kind = "sign_dest" /\ op.pc = "landed"
           /\ op' = NoOp
           /\ transferState'.error = NoError) =>
            transferState'.step = "complete"
       /\ (/\ transferState.step = "sign_destination"
           /\ transferState'.step \notin {"sign_destination", "expired", "idle"}) =>
            /\ transferState'.step = "complete"
            /\ op.kind = "sign_dest" /\ op.pc = "landed"
            /\ sessionLanded
       /\ (/\ transferState.step = "complete"
           /\ transferState'.step # "complete") =>
            /\ transferState'.step = "idle"
            /\ ~modalOpen']_vars

\* The completion screen of a transfer from A to D that went through
\* within the window: D holds the auth key on chain.
C20_Witness ==
    /\ transferState.step = "complete"
    /\ transferState.originalAuthPubkey = "A"
    /\ transferState.destinationPubkey = "D"
    /\ transferState.error = NoError
    /\ wallet = "D"
    /\ chain[1] = [key |-> "D", auth |-> TRUE]
    /\ now = 1000
    /\ sent = 1
    /\ sessionLanded
    /\ modalOpen
    /\ ~processing

C22_FirstSignFailureRetryable ==
    [][LET ended  == op.kind = "sign_current" /\ op'.kind = "none"
           failed == \/ ended /\ transferState'.partiallySignedTx = << >>
                     \/ /\ transferState.step = "sign_current"
                        /\ op.kind = "none" /\ op'.kind = "none"
                        /\ transferState'.step = "sign_current"
                        /\ transferState'.error # transferState.error
       IN  /\ ended => transferState.step = "sign_current"
           /\ failed =>
                /\ transferState'.error = "failed_sign"
                /\ transferState'.step = "sign_current"
                /\ transferState'.partiallySignedTx = << >>
                /\ transferState'.signedAt = 0
                /\ transferState'.destinationPubkey
                     = transferState.destinationPubkey
                /\ ~processing'
                /\ ~ButtonDisabled'
                /\ modalOpen'
                /\ selectedProfile' = selectedProfile]_vars

\* The sign_current screen after the wallet rejected: the error is shown and
\* the button is enabled.
C22_Witness ==
    /\ transferState.step = "sign_current"
    /\ transferState.error = "failed_sign"
    /\ transferState.partiallySignedTx = << >>
    /\ transferState.signedAt = 0
    /\ ~processing
    /\ op = NoOp
    /\ ModalVisible
    /\ wallet = transferState.originalAuthPubkey
    /\ IsPublicKey(transferState.destinationPubkey)

\* C23: when the destination signature, the submission or the confirmation
\* fails, the error is recorded and nothing else of the session changes
\* (step, partiallySignedTx, signedAt); processing is false again, and in
\* sign_destination with the destination still connected the guard of the
\* action passes again on the same stored partial transaction.
C23_DestinationFailureRetryable ==
    [][LET failed == \/ /\ op.kind = "sign_dest" /\ op'.kind = "none"
                        /\ transferState'.error # NoError
                     \/ /\ transferState.step = "sign_destination"
                        /\ op.kind = "none" /\ op'.kind = "none"
                        /\ transferState'.step = "sign_destination"
                        /\ transferState'.error # transferState.error
       IN  failed =>
             /\ transferState'.error \in {"failed", "connect_destination_wallet"}
             /\ transferState' = [transferState EXCEPT
                                    !.error = transferState'.error]
             /\ ~processing'
             /\ ~ButtonDisabled'
             /\ modalOpen' = modalOpen
             /\ (/\ transferState.step = "sign_destination"
                 /\ wallet' = transferState.destinationPubkey) =>
                  /\ DestGuard(transferState', wallet') = "proceed"
                  /\ transferState'.partiallySignedTx
                       = transferState.partiallySignedTx]_vars

\* The sign_destination screen after the node took the transaction and the
\* confirmation failed, with time left on the countdown.
C23_Witness ==
    /\ transferState.step = "sign_destination"
    /\ transferState.error = "failed"
    /\ transferState.partiallySignedTx # << >>
    /\ transferState.signedAt # 0
    /\ ~TimerExpired(transferState.signedAt, now)
    /\ sent = 1
    /\ wallet = transferState.destinationPubkey
    /\ ~processing
    /\ ModalVisible

\* C24: partiallySignedTx is written only by the successful first signature
\* (from null, leaving sign_current, to the bytes the wallet signed) and
\* cleared only by the restart from expired or by closing the modal; no
\* other step changes it, and the transaction handed to the destination
\* wallet is the deserialization of the stored value.
C24_PartialTxWrittenOnce ==
    [][/\ transferState'.partiallySignedTx # transferState.partiallySignedTx =>
            \/ /\ transferState.partiallySignedTx = << >>
               /\ transferState.step = "sign_current"
               /\ op.kind = "sign_current" /\ op.pc = "sign"
               /\ transferState'.partiallySignedTx
                    = << Serialize(SignTransaction(op.tx, op.w)) >>
               /\ transferState'.step \in {"connect_destination",
                                           "sign_destination"}
               /\ transferState'.signedAt = now
            \/ /\ transferState'.partiallySignedTx = << >>
               /\ transferState.step = "expired"
               /\ transferState'.step = "sign_current"
            \/ /\ transferState'.partiallySignedTx = << >>
               /\ modalOpen /\ ~modalOpen'
               /\ transferState'.step = "idle"
       /\ (call'.api = "signTransaction" /\ op'.kind = "sign_dest") =>
            /\ transferState.partiallySignedTx # << >>
            /\ transferState'.partiallySignedTx = transferState.partiallySignedTx
            /\ call'.wire = transferState.partiallySignedTx[1]
            /\ op'.tx.sigs = WireSigs(transferState.partiallySignedTx[1])
            /\ Serialize(op'.tx) = transferState.partiallySignedTx[1]]_vars

\* The destination wallet is asked to sign on the second attempt, after a
\* failure: the bytes are those of the first signature.
C24_Witness ==
    /\ call.api = "signTransaction"
    /\ op.kind = "sign_dest"
    /\ sent = 1
    /\ transferState.partiallySignedTx # << >>
    /\ call.wire = transferState.partiallySignedTx[1]
    /\ WireSigs(call.wire) = {transferState.originalAuthPubkey}

\* C25: every transfer transaction built by sign-with-current-wallet has
\* the session's destination as fee payer and never the signing wallet,
\* addresses the slot of the signer's own auth key and installs the
\* destination key; every delete transaction is paid by the connected
\* wallet and addresses the slot of the targeted key.
C25_TransactionsWellBuilt ==
    [][/\ (op'.kind = "sign_current" /\ op.kind # "sign_current") =>
            /\ op'.tx.kind = "adjustAuth"
            /\ op'.tx.feePayer = transferState.destinationPubkey
            /\ op'.tx.feePayer # op'.tx.signer
            /\ op'.tx.signer = wallet
            /\ op'.tx.newKey = transferState.destinationPubkey
            /\ op'.tx.idx \in 1..Len(selectedProfile[1].keys)
            /\ selectedProfile[1].keys[op'.tx.idx]
                 = [key |-> wallet, auth |-> TRUE]
       /\ (op'.kind = "delete" /\ op.kind # "delete") =>
            /\ op'.tx.kind = "removeKeys"
            /\ op'.tx.feePayer = wallet
            /\ op'.tx.signer = wallet
            /\ op'.tx.idx = op'.idx]_vars

C27_OneDirection ==
    [][LET order == <<"enter_destination", "sign_current",
                      "connect_destination", "sign_destination",
                      "expired", "complete">>
           Rank(st) == CHOOSE n \in 1..Len(order) : order[n] = st
       IN  (/\ transferState.step # "idle"
            /\ transferState'.step # "idle"
            /\ Rank(transferState'.step) < Rank(transferState.step)) =>
              /\ transferState.step = "expired"
              /\ transferState'.step = "sign_current"]_vars

\* C28: the destination signature is requested only from the wallet whose
\* identity equals destinationPubkey when the button is pressed.  With no
\* wallet connected no handler starts and nothing is requested; with
\* another identity connected the error is recorded, no signature is
\* requested and nothing is submitted.
C28_SecondSignatureFromDestination ==
    [][LET dest == transferState.destinationPubkey
           requested == op'.kind = "sign_dest" /\ op.kind # "sign_dest"
           quiet == /\ op' = op
                    /\ call'.api \notin {"signTransaction",
                                         "sendRawTransaction"}
                    /\ sent' <= sent
                    /\ chain' = chain
       IN  /\ requested =>
                /\ transferState.step = "sign_destination"
                /\ wallet = dest
                /\ wallet' = wallet
                /\ call'.api = "signTransaction"
                /\ call'.w = dest
                /\ op'.w = dest
           /\ (/\ transferState.step = "sign_destination"
               /\ op.kind = "none"
               /\ wallet = NoWallet
               /\ wallet' = wallet) =>
                /\ quiet
                /\ transferState'.step = "sign_destination" =>
                     transferState' = transferState
           /\ (/\ transferState.step = "sign_destination"
               /\ op.kind = "none"
               /\ wallet \notin {NoWallet, dest}
               /\ wallet' = wallet) =>
                /\ quiet
                /\ (/\ transferState'.step = "sign_destination"
                    /\ transferState' # transferState) =>
                     transferState' = [transferState EXCEPT
                                         !.error = "connect_destination_wallet"]
          ]_vars

\* The sign_destination screen with a third wallet connected, after the
\* button was pressed: the error is shown and nothing was requested.
C28_Witness ==
    /\ transferState.step = "sign_destination"
    /\ transferState.error = "connect_destination_wallet"
    /\ wallet \notin {NoWallet, transferState.destinationPubkey}
    /\ op = NoOp
    /\ call = NoCall
    /\ sent = 0
    /\ ~processing

\* C29: the first signature of a session is requested from the wallet that
\* was captured as originalAuthPubkey when the session was opened.
C29_FirstSignatureFromOriginal ==
    [][(call'.api = "signTransaction" /\ op'.kind = "sign_current") =>
          /\ call'.w = transferState.originalAuthPubkey
          /\ op'.tx.signer = transferState.originalAuthPubkey]_vars

\* C30: in every state partiallySignedTx is non-null exactly when signedAt
\* is, and both are non-null exactly when the step is connect_destination,
\* sign_destination, expired or complete.
C30_PartialTxIffSignedAt ==
    /\ (transferState.partiallySignedTx # << >>) = (transferState.signedAt # 0)
    /\ (transferState.partiallySignedTx # << >>)
         = (transferState.step \in {"connect_destination", "sign_destination",
                                    "expired", "complete"})

\* C31: in every state the step is idle exactly when the modal is closed
\* and no profile is selected; and whenever the profile list is hidden by a
\* transfer in progress the modal, with its Cancel or Done control, is open.
C31_IdleIffModalClosed ==
    /\ (transferState.step = "idle")
         = (~modalOpen /\ selectedProfile = << >>)
    /\ isTransferInProgress => modalOpen

\* C32: whenever the step is sign_destination the connected identity equals
\* destinationPubkey.
C32_DestinationConnectedInSignDestination ==
    transferState.step = "sign_destination"
        => wallet = transferState.destinationPubkey

\* C33: after a delete is confirmed the refresh is started while processing
\* is still held, and processing is released only when that refresh has
\* ended; when the delete fails (build, send or confirmation) the failure
\* is shown in an alert, no refresh is started, the displayed list is
\* unchanged and processing is false again.
C33_DeleteRefreshOrAlert ==
    [][/\ (op.kind = "delete" /\ op.pc # "fetch" /\ op'.pc = "fetch") =>
            /\ op.pc = "landed"
            /\ processing'
            /\ loading'
            /\ profiles' = profiles
       /\ (op.kind = "delete" /\ op'.kind = "none") =>
            /\ ~processing'
            /\ op.pc # "fetch" =>
                 /\ call'.api = "alert"
                 /\ profiles' = profiles
                 /\ loading' = loading
                 /\ fetches' = fetches
       /\ call'.api = "alert" =>
            /\ op.kind = "delete"
            /\ op.pc \in {"build", "confirm", "landed", "dropped"}
            /\ op' = NoOp]_vars

\* The alert of a delete that failed: the list is still displayed and the
\* Delete button is enabled again.
C33_Witness ==
    /\ call.api = "alert"
    /\ ~processing
    /\ op = NoOp
    /\ profiles # << >>
    /\ landed = {}
    /\ ListVisible

\* C34: when the refresh that follows a confirmed delete has ended, a
\* Delete button can be pressed only on a key list that equals the
\* profile's key list on chain: the confirmed removal is reflected in what
\* the user sees.
C34_NoDeleteOnStaleList ==
    [][(op.kind = "delete" /\ op.pc = "fetch" /\ op'.kind = "none") =>
          ((/\ ListVisible'
            /\ ~ButtonDisabled'
            /\ \E i \in 1..Len(profiles') :
                 \E k \in 1..Len(profiles'[i].keys) :
                    DeleteButtonShown(profiles'[i].keys[k], wallet'))
             => \A i \in 1..Len(profiles') : profiles'[i].keys = chain')]_vars

\* C35: no user action lets the failure of an external call leave its
\* handler uncaught: the last event never ended in an unhandled rejection.
C35_NoUncaughtFailure ==
    call.api # "unhandledRejection"

\* C36: closing the modal from complete (Done) or from a step in which the
\* transfer is in progress (Cancel) resets the session to its initial value,
\* step idle, and, if a wallet is connected, starts exactly one fetch for
\* the connected identity and the configured program and sets loading; with
\* no wallet connected it starts none.
C36_FetchAfterClose ==
    [][(modalOpen /\ ~modalOpen' /\ isTransferInProgress) =>
          /\ transferState' = initialTransferState
          /\ wallet' = wallet
          /\ IF wallet # NoWallet
             THEN /\ fetches' = Append(fetches, [w |-> wallet,
                                                 programId |-> programId])
                  /\ loading'
             ELSE fetches' = fetches]_vars

\* C36 (witness): the transfer has landed, the modal was closed from
\* complete, and the fetch for the connected destination wallet is in flight.
C36_Witness ==
    /\ transferState = initialTransferState
    /\ ~modalOpen
    /\ \E t \in landed : t.message.kind = "adjustAuth"
    /\ wallet = "D"
    /\ profiles # << >>
    /\ profiles[1].keys # chain
    /\ loading
    /\ fetches = << [w |-> wallet, programId |-> programId] >>

\* C37: processing is true exactly while a delete, a first-sign or a
\* destination sign/submit handler is pending, and, when every awaited call
\* returns, a handler that set processing eventually ends and leaves
\* processing false, so that the controls it disabled are enabled again.
C37_ProcessingReleased ==
    /\ [](processing <=> op.kind \in {"delete", "sign_current", "sign_dest"})
    /\ [](op.kind \in {"none", "delete", "sign_current", "sign_dest"})
    /\ processing ~> (~processing /\ ~ButtonDisabled /\ op = NoOp)

\* C37 (witness): a handler has ended in its catch block and another has
\* ended after a confirmed delete; processing is false again.
C37_Witness ==
    /\ ~processing
    /\ ~ButtonDisabled
    /\ op = NoOp
    /\ transferState.error \in {"failed_sign", "failed"}
    /\ landed # {}

C39_EmptyOutcomesReported ==
    [][\A i \in 1..Len(fetches) :
          fetches' = RemoveAt(fetches, i) =>
            LET w  == fetches[i].w
                id == fetches[i].programId
                failed == /\ debugInfo' = ErrorMessage(RpcErrorMessage)
                          /\ profiles' = profiles
                none1 == FoundMessage(0, TotalAccounts(id)) \o FoundNoneHint
            IN  /\ ~loading'
                /\ call'.api \notin {"unhandledRejection", "alert"}
                /\ MissingMessage(id) \notin
                       {none1, NoProfilesMessageSkin2,
                        ErrorMessage(RpcErrorMessage)}
                /\ ~ProgramExists(id) =>
                      \/ debugInfo' = MissingMessage(id) /\ profiles' = << >>
                      \/ failed
                /\ (ProgramExists(id) /\ ReadProfiles(chain, w) = << >>) =>
                      \/ debugInfo' = none1 /\ profiles' = << >>
                      \/ failed
                /\ \A thrown \in Throws :
                     LET r == fetchProfilesSkin2Result(thrown, chain, w, id,
                                                       profiles)
                         failed2 ==
                             /\ r.debugInfo = ErrorMessage(RpcErrorMessage)
                             /\ r.profiles = profiles
                     IN  /\ ~r.loading
                         /\ ~ProgramExists(id) =>
                               \/ /\ r.debugInfo = MissingMessage(id)
                                  /\ r.profiles = << >>
                               \/ failed2
                         /\ (/\ ProgramExists(id)
                             /\ ReadProfiles(chain, w) = << >>) =>
                               \/ /\ r.debugInfo = NoProfilesMessageSkin2
                                  /\ r.profiles = << >>
                               \/ failed2]_vars

\* C39 (witness): a fetch under the id of a program that is not on this
\* network has ended: the list is empty and the missing program is reported.
C39_Witness ==
    /\ wallet # NoWallet
    /\ ~ProgramExists(programId)
    /\ fetches = << >>
    /\ ~loading
    /\ profiles = << >>
    /\ debugInfo = MissingMessage(programId)

====
